---- MODULE Spec2Model ----
(***************************************************************************)
(* Model of imitation/scripts/common/train.py: the `train` Sacred          *)
(* ingredient (default config, named configs, config hook) and the         *)
(* eval_policy helper that rolls a policy out on a vectorized environment  *)
(* and summarises the episodes.                                            *)
(*                                                                         *)
(* eval_policy is followed statement by statement; pc names the line of    *)
(* train.py about to be executed.  The collaborators it calls live        *)
(* outside train.py: rollout.make_min_episodes, generate_trajectories and  *)
(* rollout_stats, common.make_rng (same package, modelled from the         *)
(* written specification), and BaseAlgorithm.set_env / get_env (stable     *)
(* baselines, modelled from the comments at the call sites).               *)
(***************************************************************************)
EXTENDS Integers, Sequences, FiniteSets, TLC

\* ---------------------------------------------------------------- bounds
\* Largest number of parallel instances of a vectorized environment.
MaxEnvs == 2
\* Longest episode, in steps, of an instance that does finish episodes.
MaxEpLen == 5
\* Seeds of the shared configuration scope are 0..MaxSeed.
MaxSeed == 1
\* Largest target episode count tried.
MaxNEval == 2

VARIABLES
    \* -- the train ingredient's configuration
    train_config,       \* [policy_cls, policy_kwargs, n_episodes_eval]
    hook_updates,       \* what each config_hook run returned, in order
    prev_kwargs,        \* policy_kwargs just before the last config_hook run
    \* -- the arguments and objects of an eval_policy call
    rl_algo,            \* "algorithm" (BaseAlgorithm) or "policy" (BasePolicy)
    wraps,              \* whether the algorithm wraps the environments it is given
    venv_dyn,           \* the dynamics of venv
    n_episodes_eval,    \* target episode count
    seed,               \* the configuration scope's seed
    \* -- the state of the call
    pc,                 \* line of eval_policy about to run, or idle/loop/done/error
    algo_env,           \* the algorithm's environment reference
    prior_env,          \* algo_env when the current call was entered
    rng,                \* state of the random source
    sample_until_eval,  \* the stopping criterion
    train_env,          \* eval_policy's local train_env
    gen_env,            \* the environment generate_trajectories was handed
    cur_len,            \* per instance: steps of the episode in progress
    cur_ret,            \* per instance: reward of the episode in progress
    trajs,              \* completed episodes, each [ret, len]
    result,             \* what eval_policy returned
    ops,                \* collaborator operations of the current call, in order
    first_result        \* what the first completed call returned

cfgvars == <<train_config, hook_updates, prev_kwargs>>
argvars == <<rl_algo, wraps, venv_dyn, n_episodes_eval, seed>>
runvars == <<pc, algo_env, prior_env, rng, sample_until_eval, train_env, gen_env,
             cur_len, cur_ret, trajs, result, ops, first_result>>
vars == <<cfgvars, argvars, runvars>>

\* ------------------------------------------------------- environments
NoEnv == [id |-> "none", wrapped |-> FALSE]
Venv == [id |-> "venv", wrapped |-> FALSE]
OldEnv == [id |-> "old_env", wrapped |-> FALSE]
Wrap(e) == [e EXCEPT !.wrapped = TRUE]
EnvRefs == {NoEnv, Venv, Wrap(Venv), OldEnv, Wrap(OldEnv)}

\* An environment's dynamics: instance i finishes an episode every lens[i]
\* steps (0: it never signals completion); each step pays reward 1
\* ("const") or the action taken ("action").
DynamicsSet ==
    UNION { { [num_envs |-> k, lens |-> l, reward |-> r] :
                l \in [1..k -> 0..MaxEpLen], r \in {"const", "action"} } :
            k \in 1..MaxEnvs }
OldEnvDynamics == [num_envs |-> 1, lens |-> <<1>>, reward |-> "const"]
\* A wrapper changes observations only, never rewards or episode ends.
EnvDynamics(e) == IF e.id = "venv" THEN venv_dyn ELSE OldEnvDynamics

\* BaseAlgorithm.set_env: the algorithm's reference becomes the given
\* environment, wrapped when the algorithm needs a wrapper.
set_env(w, env) == IF w THEN Wrap(env) ELSE env

\* ------------------------------------------------------ random source
Seeds == 0..MaxSeed
RngNext(s) == (5 * s + 3) % 8
RngDraw(s) == s \div 4
RECURSIVE RngAdvance(_, _)
RngAdvance(s, k) == IF k = 0 THEN s ELSE RngAdvance(RngNext(s), k - 1)
\* common.make_rng: a generator seeded from the configuration scope.
make_rng(sd) == sd % 8

\* ----------------------------------------------------- stopping criterion
NoCriterion == [kind |-> "unset", n |-> 0]
\* rollout.make_min_episodes: "stop once at least n episodes completed".
\* For n <= 0 the outcome is either a rejection or a criterion that no
\* set of trajectories satisfies.
make_min_episodes(n) ==
    IF n > 0 THEN { [kind |-> "min_episodes", n |-> n] }
    ELSE { [kind |-> "reject", n |-> n], [kind |-> "never", n |-> n] }
SampleUntil(c, ts) == c.kind = "min_episodes" /\ Len(ts) >= c.n

\* --------------------------------------------------------- statistics
RECURSIVE SeqSum(_)
SeqSum(s) == IF s = <<>> THEN 0 ELSE Head(s) + SeqSum(Tail(s))
SeqMin(s) == CHOOSE x \in {s[i] : i \in DOMAIN s} : \A i \in DOMAIN s : x <= s[i]
SeqMax(s) == CHOOSE x \in {s[i] : i \in DOMAIN s} : \A i \in DOMAIN s : x >= s[i]
RECURSIVE GCD(_, _)
GCD(a, b) == IF b = 0 THEN a ELSE GCD(b, a % b)
\* The mean of a sequence of naturals as a fraction in lowest terms.
Mean(s) ==
    LET g == GCD(Len(s), SeqSum(s))
    IN  [num |-> SeqSum(s) \div g, den |-> Len(s) \div g]
NoResult == [none |-> TRUE]
\* rollout.rollout_stats: count, and min/mean/max of returns and lengths.
rollout_stats(ts) ==
    LET rets == [i \in DOMAIN ts |-> ts[i].ret]
        lens == [i \in DOMAIN ts |-> ts[i].len]
    IN  IF ts = <<>> THEN NoResult
        ELSE [n_traj |-> Len(ts),
              return_min |-> SeqMin(rets), return_mean |-> Mean(rets),
              return_max |-> SeqMax(rets),
              len_min |-> SeqMin(lens), len_mean |-> Mean(lens),
              len_max |-> SeqMax(lens)]

\* --------------------------------------------- eval_policy, line by line
NEvalSet == (0 - 1)..MaxNEval
MaxTrajs == MaxNEval + MaxEnvs

\* Line 96: rng = common.make_rng()
\* (variant: the generator an earlier call left behind is reused)
EvalRngReused(sd, leftover) == leftover
EvalRng(sd, leftover) == make_rng(sd)

\* Line 97: sample_until_eval = rollout.make_min_episodes(n_episodes_eval)
\* (variants: the target is passed on off by one)
SampleUntilEvalMinusOne(n) == make_min_episodes(n - 1)
SampleUntilEvalPlusOne(n) == make_min_episodes(n + 1)
SampleUntilEval(n) == make_min_episodes(n)

\* Line 98: isinstance(rl_algo, base_class.BaseAlgorithm)
\* (variant: every rl_algo is treated as an algorithm)
IsBaseAlgorithmAlways(r) == TRUE
IsBaseAlgorithm(r) == r = "algorithm"

\* Line 105: train_env = rl_algo.get_env()
\* (variant: the raw venv is used instead of the algorithm's environment)
TrainEnvOfAlgorithmRaw(env_of_algo, venv) == venv
TrainEnvOfAlgorithm(env_of_algo, venv) == env_of_algo

\* Line 107: train_env = venv
TrainEnvOfPolicy(venv) == venv

\* The caller enters eval_policy (again, after a call that returned or
\* raised); the first returned result is remembered.
Call ==
    /\ pc \in {"idle", "done", "error"}
    /\ pc' = "L96"
    /\ prior_env' = algo_env
    /\ first_result' = IF pc = "done" /\ first_result = NoResult
                       THEN result ELSE first_result
    /\ sample_until_eval' = NoCriterion
    /\ train_env' = NoEnv
    /\ gen_env' = NoEnv
    /\ trajs' = <<>>
    /\ result' = NoResult
    /\ ops' = <<>>
    /\ UNCHANGED <<algo_env, rng, cur_len, cur_ret>>
    /\ UNCHANGED <<cfgvars, argvars>>

L96_MakeRng ==
    /\ pc = "L96"
    /\ rng' = EvalRng(seed, rng)
    /\ pc' = "L97"
    /\ UNCHANGED <<algo_env, prior_env, sample_until_eval, train_env, gen_env,
                   cur_len, cur_ret, trajs, result, ops, first_result>>
    /\ UNCHANGED <<cfgvars, argvars>>

L97_MakeSampleUntil ==
    /\ pc = "L97"
    /\ \E c \in SampleUntilEval(n_episodes_eval) :
          /\ sample_until_eval' = c
          /\ pc' = IF c.kind = "reject" THEN "error" ELSE "L98"
    /\ UNCHANGED <<algo_env, prior_env, rng, train_env, gen_env,
                   cur_len, cur_ret, trajs, result, ops, first_result>>
    /\ UNCHANGED <<cfgvars, argvars>>

L98_Branch ==
    /\ pc = "L98"
    /\ pc' = IF IsBaseAlgorithm(rl_algo) THEN "L101" ELSE "L107"
    /\ UNCHANGED <<algo_env, prior_env, rng, sample_until_eval, train_env, gen_env,
                   cur_len, cur_ret, trajs, result, ops, first_result>>
    /\ UNCHANGED <<cfgvars, argvars>>

\* (variant of line 101: set_env is not called)
L101_Skipped ==
    /\ pc = "L101"
    /\ pc' = "L105"
    /\ UNCHANGED <<algo_env, prior_env, rng, sample_until_eval, train_env, gen_env,
                   cur_len, cur_ret, trajs, result, ops, first_result>>
    /\ UNCHANGED <<cfgvars, argvars>>

\* Line 101: rl_algo.set_env(venv)
L101_SetEnv ==
    /\ pc = "L101"
    /\ algo_env' = set_env(wraps, Venv)
    /\ ops' = Append(ops, "set_env")
    /\ pc' = "L105"
    /\ UNCHANGED <<prior_env, rng, sample_until_eval, train_env, gen_env,
                   cur_len, cur_ret, trajs, result, first_result>>
    /\ UNCHANGED <<cfgvars, argvars>>

L105_GetEnv ==
    /\ pc = "L105"
    /\ train_env' = TrainEnvOfAlgorithm(algo_env, Venv)
    /\ ops' = Append(ops, "get_env")
    /\ pc' = "L108"
    /\ UNCHANGED <<algo_env, prior_env, rng, sample_until_eval, gen_env,
                   cur_len, cur_ret, trajs, result, first_result>>
    /\ UNCHANGED <<cfgvars, argvars>>

L107_UseVenv ==
    /\ pc = "L107"
    /\ train_env' = TrainEnvOfPolicy(Venv)
    /\ pc' = "L108"
    /\ UNCHANGED <<algo_env, prior_env, rng, sample_until_eval, gen_env,
                   cur_len, cur_ret, trajs, result, ops, first_result>>
    /\ UNCHANGED <<cfgvars, argvars>>

\* Line 108: rollout.generate_trajectories is entered: the environment is
\* reset and every instance starts an episode.
L108_GenerateStart ==
    /\ pc = "L108"
    /\ gen_env' = train_env
    /\ ops' = Append(ops, "generate_trajectories")
    /\ IF train_env = NoEnv
       THEN /\ pc' = "error"
            /\ UNCHANGED <<cur_len, cur_ret>>
       ELSE /\ pc' = "loop"
            /\ cur_len' = [i \in 1..EnvDynamics(train_env).num_envs |-> 0]
            /\ cur_ret' = [i \in 1..EnvDynamics(train_env).num_envs |-> 0]
    /\ UNCHANGED <<algo_env, prior_env, rng, sample_until_eval, train_env,
                   trajs, result, first_result>>
    /\ UNCHANGED <<cfgvars, argvars>>

Min2(a, b) == IF a < b THEN a ELSE b
\* The trajectories of the instances among 1..k that finish at this step,
\* in instance order.
RECURSIVE Finished(_, _, _, _)
Finished(k, dn, rets, lens) ==
    IF k = 0 THEN <<>>
    ELSE LET rest == Finished(k - 1, dn, rets, lens)
         IN  IF dn[k] THEN Append(rest, [ret |-> rets[k], len |-> lens[k]])
             ELSE rest
\* rng.shuffle(trajectories): a permutation picked by the random source.
Shuffle(s, ts) ==
    LET n == Len(ts)
        k == IF n = 0 THEN 0 ELSE s % n
    IN  [i \in 1..n |-> ts[((i - 1 + k) % n) + 1]]

\* One iteration of generate_trajectories' loop: the policy acts on every
\* instance, all instances step together, finished episodes are collected,
\* and generation ends once the stopping criterion holds.
GenerateStep ==
    /\ pc = "loop"
    /\ Len(trajs) < MaxTrajs
    /\ LET d == EnvDynamics(gen_env)
           k == d.num_envs
           acts == [i \in 1..k |-> RngDraw(RngAdvance(rng, i - 1))]
           rew == [i \in 1..k |-> IF d.reward = "const" THEN 1 ELSE acts[i]]
           nlen == [i \in 1..k |-> cur_len[i] + 1]
           nret == [i \in 1..k |-> cur_ret[i] + rew[i]]
           dn == [i \in 1..k |-> d.lens[i] > 0 /\ nlen[i] >= d.lens[i]]
           all == trajs \o Finished(k, dn, nret, nlen)
           r1 == RngAdvance(rng, k)
       IN  /\ cur_len' = [i \in 1..k |-> IF dn[i] THEN 0
                                         ELSE IF d.lens[i] = 0 THEN Min2(nlen[i], MaxEpLen)
                                         ELSE nlen[i]]
           /\ cur_ret' = [i \in 1..k |-> IF dn[i] THEN 0
                                         ELSE IF d.lens[i] = 0 THEN Min2(nret[i], MaxEpLen)
                                         ELSE nret[i]]
           /\ IF SampleUntil(sample_until_eval, all)
              THEN /\ trajs' = Shuffle(r1, all)
                   /\ rng' = RngNext(r1)
                   /\ pc' = "L114"
              ELSE /\ trajs' = all
                   /\ rng' = r1
                   /\ pc' = "loop"
    /\ UNCHANGED <<algo_env, prior_env, sample_until_eval, train_env, gen_env,
                   result, ops, first_result>>
    /\ UNCHANGED <<cfgvars, argvars>>

\* Line 114: return rollout.rollout_stats(trajs)
EvalResult(ts) == rollout_stats(ts)

L114_Return ==
    /\ pc = "L114"
    /\ result' = EvalResult(trajs)
    /\ ops' = Append(ops, "rollout_stats")
    /\ pc' = "done"
    /\ UNCHANGED <<algo_env, prior_env, rng, sample_until_eval, train_env, gen_env,
                   cur_len, cur_ret, trajs, first_result>>
    /\ UNCHANGED <<cfgvars, argvars>>

\* The statements of a call in progress.
EvalStep ==
    \/ L96_MakeRng
    \/ L97_MakeSampleUntil
    \/ L98_Branch
    \/ L101_SetEnv
    \/ L105_GetEnv
    \/ L107_UseVenv
    \/ L108_GenerateStart
    \/ GenerateStep
    \/ L114_Return

\* ------------------------------------------------------ configuration
\* Largest number of config_hook runs followed.
MaxHookRuns == 2

EmptyDict == [k \in {} |-> "none"]
FEC == "features_extractor_class"
FEK == "features_extractor_kwargs"

\* Lines 18-27: config()
DefaultConfig ==
    [policy_cls |-> "FeedForward32Policy",
     policy_kwargs |-> EmptyDict,
     n_episodes_eval |-> 50]

\* Lines 50-55
NORMALIZE_RUNNING_POLICY_KWARGS ==
    [features_extractor_class |-> "NormalizeFeaturesExtractor",
     features_extractor_kwargs |-> [normalize_class |-> "RunningNorm"]]

\* Lines 40-47: normalize_disable
NormalizeDisableKwargs == [features_extractor_class |-> "FlattenExtractor"]

\* Sacred merges dictionaries key by key: an entry of u replaces the entry
\* of d with the same key, except that two dictionaries are merged in turn
\* (only features_extractor_kwargs holds a dictionary).
MergeFlat(d, u) ==
    [k \in DOMAIN d \cup DOMAIN u |-> IF k \in DOMAIN u THEN u[k] ELSE d[k]]
RecursiveUpdate(d, u) ==
    [k \in DOMAIN d \cup DOMAIN u |->
        IF k \notin DOMAIN u THEN d[k]
        ELSE IF k \notin DOMAIN d THEN u[k]
        ELSE IF k = FEK THEN MergeFlat(d[k], u[k])
        ELSE u[k]]

\* Lines 63-69: config_hook
\* (variant: the hook tests for features_extractor_kwargs)
config_hook_kwargs_key(config) ==
    IF FEK \notin DOMAIN config.train.policy_kwargs
    THEN [policy_kwargs |-> NORMALIZE_RUNNING_POLICY_KWARGS]
    ELSE EmptyDict
config_hook(config) ==
    IF FEC \notin DOMAIN config.train.policy_kwargs
    THEN [policy_kwargs |-> NORMALIZE_RUNNING_POLICY_KWARGS]
    ELSE EmptyDict

\* Sacred applies a hook's update beneath the configuration updates the
\* user gave: entries already set win over the hook's.
ApplyHookUpdate(cfg, upd) ==
    IF "policy_kwargs" \in DOMAIN upd
    THEN [cfg EXCEPT !.policy_kwargs = RecursiveUpdate(upd.policy_kwargs, @)]
    ELSE cfg

EvalIdle == UNCHANGED <<argvars, runvars>>

\* Lines 30-32: named config fast
NamedConfig_fast ==
    /\ hook_updates = <<>>
    /\ train_config' = [train_config EXCEPT !.n_episodes_eval = 1]
    /\ UNCHANGED <<hook_updates, prev_kwargs>>
    /\ EvalIdle

\* Lines 35-37: named config sac
NamedConfig_sac ==
    /\ hook_updates = <<>>
    /\ train_config' = [train_config EXCEPT !.policy_cls = "SAC1024Policy"]
    /\ UNCHANGED <<hook_updates, prev_kwargs>>
    /\ EvalIdle

\* Lines 40-47: named config normalize_disable
NamedConfig_normalize_disable ==
    /\ hook_updates = <<>>
    /\ train_config' = [train_config EXCEPT
            !.policy_kwargs = RecursiveUpdate(@, NormalizeDisableKwargs)]
    /\ UNCHANGED <<hook_updates, prev_kwargs>>
    /\ EvalIdle

\* Lines 58-60: named config normalize_running
NamedConfig_normalize_running ==
    /\ hook_updates = <<>>
    /\ train_config' = [train_config EXCEPT
            !.policy_kwargs = RecursiveUpdate(@, NORMALIZE_RUNNING_POLICY_KWARGS)]
    /\ UNCHANGED <<hook_updates, prev_kwargs>>
    /\ EvalIdle

\* A configuration update given by the user for one entry of policy_kwargs.
UserUpdates ==
    { [net_arch |-> "small"],
      [features_extractor_kwargs |-> EmptyDict],
      [features_extractor_kwargs |-> [normalize_class |-> "EMANorm"]],
      [features_extractor_class |-> "FlattenExtractor"] }
UserUpdate ==
    /\ hook_updates = <<>>
    /\ \E u \in UserUpdates :
          train_config' = [train_config EXCEPT
                !.policy_kwargs = RecursiveUpdate(@, u)]
    /\ UNCHANGED <<hook_updates, prev_kwargs>>
    /\ EvalIdle

\* The config hook runs on the whole configuration and its update is applied.
RunConfigHook ==
    /\ Len(hook_updates) < MaxHookRuns
    /\ LET upd == config_hook([train |-> train_config])
       IN  /\ hook_updates' = Append(hook_updates, upd)
           /\ train_config' = ApplyHookUpdate(train_config, upd)
    /\ prev_kwargs' = train_config.policy_kwargs
    /\ EvalIdle

InitConfig ==
    /\ train_config = DefaultConfig
    /\ hook_updates = <<>>
    /\ prev_kwargs = DefaultConfig.policy_kwargs

\* ------------------------------------------------------ specifications
InitArgs ==
    /\ rl_algo \in {"algorithm", "policy"}
    /\ wraps \in BOOLEAN
    /\ (rl_algo = "policy" => ~wraps)
    /\ venv_dyn \in DynamicsSet
    /\ n_episodes_eval \in NEvalSet
    /\ seed \in Seeds

InitRun ==
    /\ pc = "idle"
    /\ algo_env \in IF rl_algo = "algorithm" THEN EnvRefs ELSE {NoEnv}
    /\ prior_env = algo_env
    /\ rng = 0
    /\ sample_until_eval = NoCriterion
    /\ train_env = NoEnv
    /\ gen_env = NoEnv
    /\ cur_len = [i \in 1..venv_dyn.num_envs |-> 0]
    /\ cur_ret = [i \in 1..venv_dyn.num_envs |-> 0]
    /\ trajs = <<>>
    /\ result = NoResult
    /\ ops = <<>>
    /\ first_result = NoResult

Init == InitConfig /\ InitArgs /\ InitRun

Next == Call \/ EvalStep

Spec == Init /\ [][Next]_vars

\* The configuration phase alone: named configs and user updates, then the
\* config hook; no evaluation is in progress.
InitEvalIdle ==
    /\ rl_algo = "policy"
    /\ wraps = FALSE
    /\ venv_dyn = OldEnvDynamics
    /\ n_episodes_eval = 1
    /\ seed = 0
    /\ InitRun

NextConfig ==
    \/ NamedConfig_fast
    \/ NamedConfig_sac
    \/ NamedConfig_normalize_disable
    \/ NamedConfig_normalize_running
    \/ UserUpdate
    \/ RunConfigHook

InitConfigPhase == InitConfig /\ InitEvalIdle

SpecConfig == InitConfigPhase /\ [][NextConfig]_vars

\* A call in progress keeps running: eval_policy is synchronous and has no
\* suspension point.  Whether a call ends is decided by the target count
\* and the environment's episode ends, so the seed and the environment the
\* algorithm held before are fixed here.
InitFair == Init /\ seed = 0 /\ algo_env = NoEnv

FairSpec == InitFair /\ [][Next]_vars /\ WF_vars(EvalStep)

\* ================================================================ claims
Returned == pc = "done"
Generating == pc \in {"loop", "L114", "done"}
AllInstancesFinish == \A i \in 1..venv_dyn.num_envs : venv_dyn.lens[i] > 0
NoInstanceFinishes == \A i \in 1..venv_dyn.num_envs : venv_dyn.lens[i] = 0
IsPrefix(s, t) == Len(s) <= Len(t) /\ \A i \in 1..Len(s) : s[i] = t[i]

\* C1: every call that returns hands back a mapping with exactly the two
\* keys "imit_stats" and "expert_stats".
C1_TwoStatBlocks ==
    Returned => DOMAIN result = {"imit_stats", "expert_stats"}

\* C2: for N > 0, generation has stopped only if at least N episodes were
\* completed, and the returned statistics are those of at least N episodes.
C2_AtLeastNEpisodes ==
    n_episodes_eval > 0 =>
        /\ (pc \in {"L114", "done"} => Len(trajs) >= n_episodes_eval)
        /\ (Returned => /\ result = rollout_stats(trajs)
                        /\ result.n_traj >= n_episodes_eval)
C2_Witness ==
    /\ Returned
    /\ n_episodes_eval = 2
    /\ venv_dyn.num_envs = 2
    /\ result.n_traj = 3

\* C3: after a call with the algorithm variant has returned, the algorithm
\* holds venv or a wrapped form of venv, and no longer another environment
\* it held before.
C3_AlgoEnvIsVenv ==
    (rl_algo = "algorithm" /\ Returned) =>
        /\ algo_env \in {Venv, Wrap(Venv)}
        /\ (prior_env.id # "venv" => algo_env # prior_env)
C3_Witness ==
    /\ rl_algo = "algorithm"
    /\ Returned
    /\ prior_env = Wrap(OldEnv)
    /\ algo_env = Wrap(Venv)

\* C4: with a bare policy the trajectories are generated on venv itself and
\* neither set_env nor get_env is performed; no environment reference of an
\* algorithm changes.
C4_BarePolicyUsesRawVenv ==
    rl_algo = "policy" =>
        /\ gen_env \in {NoEnv, Venv}
        /\ (Generating => gen_env = Venv)
        /\ \A i \in 1..Len(ops) : ops[i] \notin {"set_env", "get_env"}
        /\ algo_env = prior_env
C4_Witness ==
    /\ rl_algo = "policy"
    /\ Returned
    /\ gen_env = Venv
    /\ ops = <<"generate_trajectories", "rollout_stats">>

\* C5: a call made again with the same seed, the same policy or algorithm,
\* the same environment and the same target returns the statistics the
\* first call returned, whatever the earlier call left behind.
C5_Deterministic ==
    (Returned /\ first_result # NoResult) => result = first_result
C5_Witness ==
    /\ Returned
    /\ first_result # NoResult
    /\ venv_dyn.reward = "action"
    /\ result.return_min < result.return_max
    /\ rng # make_rng(seed)

\* C6: for N > 0 a call returns once started when every instance signals
\* episode completion; when no instance ever does, the call neither returns
\* nor raises.
C6_Termination ==
    /\ (pc = "L96" /\ n_episodes_eval > 0 /\ AllInstancesFinish) ~> Returned
    /\ []((n_episodes_eval > 0 /\ NoInstanceFinishes)
            => pc \notin {"L114", "done", "error"})
C6_Witness ==
    /\ Returned
    /\ n_episodes_eval = 2
    /\ AllInstancesFinish
    /\ result.len_max = MaxEpLen

\* C7: with N <= 0 no statistics are ever returned: the call is rejected or
\* keeps generating.
C7_NoResultForNonPositiveN ==
    n_episodes_eval <= 0 =>
        /\ pc \notin {"L114", "done"}
        /\ result = NoResult
        /\ (pc \notin {"idle", "L96", "L97", "error"}
                => ~SampleUntil(sample_until_eval, trajs))
C7_Witness ==
    /\ n_episodes_eval = 0
    /\ pc = "loop"
    /\ Len(trajs) >= 1

\* The scenario of C8: every episode lasts 5 steps and pays 1 per step.
Scenario5 ==
    /\ venv_dyn.reward = "const"
    /\ \A i \in 1..venv_dyn.num_envs : venv_dyn.lens[i] = 5

C9_SetThenGetThenGenerate ==
    rl_algo = "algorithm" =>
        /\ IsPrefix(ops, <<"set_env", "get_env", "generate_trajectories",
                           "rollout_stats">>)
        /\ Generating =>
            /\ gen_env = algo_env
            /\ gen_env = set_env(wraps, Venv)
            /\ (wraps => gen_env # Venv)
            /\ (prior_env.id # "venv" => gen_env # prior_env)
C9_Witness ==
    /\ rl_algo = "algorithm"
    /\ wraps
    /\ Returned
    /\ prior_env = OldEnv
    /\ gen_env = Wrap(Venv)
    /\ ops = <<"set_env", "get_env", "generate_trajectories", "rollout_stats">>

\* C10: the hook returns policy_kwargs = NORMALIZE_RUNNING_POLICY_KWARGS
\* exactly when policy_kwargs has no features_extractor_class and the empty
\* update otherwise; once its update is applied the key is present, the
\* default configuration equals normalize_running's, and a second run
\* changes nothing.
C10_HookSetsDefault ==
    Len(hook_updates) >= 1 =>
        /\ hook_updates[Len(hook_updates)] =
              IF FEC \notin DOMAIN prev_kwargs
              THEN [policy_kwargs |-> NORMALIZE_RUNNING_POLICY_KWARGS]
              ELSE EmptyDict
        /\ FEC \in DOMAIN train_config.policy_kwargs
        /\ (prev_kwargs = EmptyDict
                => train_config.policy_kwargs = NORMALIZE_RUNNING_POLICY_KWARGS)
        /\ (Len(hook_updates) >= 2
                => /\ hook_updates[Len(hook_updates)] = EmptyDict
                   /\ train_config.policy_kwargs = prev_kwargs)
C10_Witness ==
    /\ Len(hook_updates) = 2
    /\ hook_updates[1] = [policy_kwargs |-> NORMALIZE_RUNNING_POLICY_KWARGS]
    /\ hook_updates[2] = EmptyDict
    /\ "net_arch" \in DOMAIN train_config.policy_kwargs
    /\ train_config.policy_kwargs[FEK] = [normalize_class |-> "EMANorm"]
====
